---------------------------- MODULE Spec2Model ----------------------------
(***************************************************************************)
(* A model of chapterSplitsM4a.py: the batch loop that splits .m4a files   *)
(* by the chapters of their .info.json metadata (or writes a cue sheet),   *)
(* with its text and timestamp helpers.                                    *)
(*                                                                         *)
(* Python strings are sequences of one-character strings; a character      *)
(* outside ASCII is written by its code point ("U+00E9").                  *)
(***************************************************************************)
EXTENDS Integers, Sequences, FiniteSets, TLC

(***************************************************************************)
(* Bounds of the model.                                                    *)
(***************************************************************************)
MaxLen == 3

MaxSeconds == 7325

MaxItems == 2

MaxChapters == 2

(***************************************************************************)
(* Characters.                                                             *)
(***************************************************************************)
\* the printable ASCII characters, in the order of their code points 32..126
\* (the grave accent, code point 96, is written "U+0060")
Ascii ==
  <<" ", "!", "\"", "#", "$", "%", "&", "'", "(", ")", "*", "+",
     ",", "-", ".", "/", "0", "1", "2", "3", "4", "5", "6", "7",
     "8", "9", ":", ";", "<", "=", ">", "?", "@", "A", "B", "C",
     "D", "E", "F", "G", "H", "I", "J", "K", "L", "M", "N", "O",
     "P", "Q", "R", "S", "T", "U", "V", "W", "X", "Y", "Z", "[",
     "\\", "]", "^", "_", "U+0060", "a", "b", "c", "d", "e", "f", "g",
     "h", "i", "j", "k", "l", "m", "n", "o", "p", "q", "r", "s",
     "t", "u", "v", "w", "x", "y", "z", "{", "|", "}", "~">>

CodePoint(c) == 31 + CHOOSE k \in 1..Len(Ascii) : Ascii[k] = c

Chr(n) == Ascii[n - 31]

Digits == [k \in 1..10 |-> Chr(47 + k)]

DigitSet == {Digits[k] : k \in 1..10}

UpperCase == {Chr(n) : n \in 65..90}

LowerCase == {Chr(n) : n \in 97..122}

Letters == UpperCase \cup LowerCase

\* \w of an ASCII string
WordChars == Letters \cup DigitSet \cup {"_"}

\* \s of an ASCII string
SpaceChars == {" ", "\t"}

\* Python's None (no string: its only element is no character)
None == <<"NoneType">>

(***************************************************************************)
(* String helpers.                                                         *)
(***************************************************************************)
\* str(value)
Str(v) == IF v = None THEN <<"N", "o", "n", "e">> ELSE v

\* value.replace(k, v): the occurrences of k, left to right, not overlapping
RECURSIVE StrReplace(_, _, _)
StrReplace(s, k, v) ==
  IF Len(s) < Len(k) THEN s
  ELSE IF SubSeq(s, 1, Len(k)) = k
       THEN v \o StrReplace(SubSeq(s, Len(k) + 1, Len(s)), k, v)
       ELSE <<Head(s)>> \o StrReplace(Tail(s), k, v)

RECURSIVE LStrip(_)
LStrip(s) ==
  IF s # <<>> /\ Head(s) \in SpaceChars THEN LStrip(Tail(s)) ELSE s

RECURSIVE RStrip(_)
RStrip(s) ==
  IF s # <<>> /\ s[Len(s)] \in SpaceChars
  THEN RStrip(SubSeq(s, 1, Len(s) - 1)) ELSE s

\* value.strip()
Strip(s) == LStrip(RStrip(s))

\* re.sub(r"[^...]", "", value): the characters outside keep are removed
RECURSIVE RemoveOutside(_, _)
RemoveOutside(s, keep) ==
  IF s = <<>> THEN <<>>
  ELSE (IF Head(s) \in keep THEN <<Head(s)>> ELSE <<>>)
         \o RemoveOutside(Tail(s), keep)

\* re.sub(r"[...]+", by, value): every maximal run of characters of cls
\* becomes one by
RECURSIVE CollapseRuns(_, _, _)
CollapseRuns(s, cls, by) ==
  IF s = <<>> THEN <<>>
  ELSE IF Head(s) \in cls
       THEN IF Len(s) > 1 /\ s[2] \in cls
            THEN CollapseRuns(Tail(s), cls, by)
            ELSE by \o CollapseRuns(Tail(s), cls, by)
       ELSE <<Head(s)>> \o CollapseRuns(Tail(s), cls, by)

(***************************************************************************)
(* slugify                                                                 *)
(***************************************************************************)
\* unicodedata.normalize("NFKD", c).encode("ascii", "ignore"): an accented
\* letter keeps its base letter, any other character outside ASCII is lost
AsciiOf(c) ==
  IF c = "U+00E9" THEN <<"e">>
  ELSE IF c = "U+2603" THEN <<>>
  ELSE <<c>>

RECURSIVE NFKDAscii(_)
NFKDAscii(s) ==
  IF s = <<>> THEN <<>> ELSE AsciiOf(Head(s)) \o NFKDAscii(Tail(s))

\* the replace table after replace.update(...), in the order of its items
ReplaceItems ==
  << << <<"[">>, <<"(">> >>,
     << <<"]">>, <<")">> >>,
     << <<":">>, <<"_">> >>,
     << <<"(", ")">>, <<>> >> >>

RECURSIVE ApplyReplace(_, _)
ApplyReplace(s, items) ==
  IF items = <<>> THEN s
  ELSE ApplyReplace(StrReplace(s, Head(items)[1], Head(items)[2]), Tail(items))

SlugKeep == WordChars \cup SpaceChars \cup {")", "(", "_", "-"}

slugify(value) ==
  LET v1 == NFKDAscii(Str(value))
      v2 == ApplyReplace(v1, ReplaceItems)
      v3 == Strip(RemoveOutside(v2, SlugKeep))
  IN  CollapseRuns(v3, SpaceChars, <<" ">>)

(***************************************************************************)
(* Numbers as text.                                                        *)
(***************************************************************************)
\* str(n) of an integer n >= 0
RECURSIVE IntToStr(_)
IntToStr(n) ==
  IF n < 10 THEN <<Digits[n + 1]>>
  ELSE IntToStr(n \div 10) \o <<Digits[(n % 10) + 1]>>

\* s.zfill(w)
RECURSIVE ZFill(_, _)
ZFill(s, w) == IF Len(s) >= w THEN s ELSE ZFill(<<"0">> \o s, w)

DigitValue(c) == CHOOSE k \in 0..9 : Digits[k + 1] = c

\* what a call raises instead of returning a string
ValueError == <<"ValueError">>

IndexError == <<"IndexError">>

KeyError == <<"KeyError">>

TypeError == <<"TypeError">>

CalledProcessError == <<"CalledProcessError">>

RECURSIVE DigitsToInt(_, _)
DigitsToInt(s, acc) ==
  IF s = <<>> THEN acc
  ELSE DigitsToInt(Tail(s), 10 * acc + DigitValue(Head(s)))

\* whether int(s) is defined: s is a run of digits, spaces around it allowed
IsNumeral(s) ==
  LET t == Strip(s)
  IN  t # <<>> /\ \A k \in 1..Len(t) : t[k] \in DigitSet

\* int(s) of such an s
ParseInt(s) == DigitsToInt(Strip(s), 0)

\* s.split(sep): the pieces of s between the occurrences of sep
RECURSIVE SplitFrom(_, _, _)
SplitFrom(s, sep, piece) ==
  IF Len(s) < Len(sep) THEN <<piece \o s>>
  ELSE IF SubSeq(s, 1, Len(sep)) = sep
       THEN <<piece>> \o SplitFrom(SubSeq(s, Len(sep) + 1, Len(s)), sep, <<>>)
       ELSE SplitFrom(Tail(s), sep, Append(piece, Head(s)))

Split(s, sep) == SplitFrom(s, sep, <<>>)

\* sep.join(parts)
RECURSIVE Join(_, _)
Join(parts, sep) ==
  IF parts = <<>> THEN <<>>
  ELSE IF Len(parts) = 1 THEN Head(parts)
  ELSE Head(parts) \o sep \o Join(Tail(parts), sep)

(***************************************************************************)
(* secondsToHMS and HMSToMS                                                *)
(***************************************************************************)
\* str(datetime.timedelta(seconds=sec)) of an integer sec >= 0:
\* "H:MM:SS", after "D day, " or "D days, " from one day on
secondsToHMS(sec) ==
  LET days == sec \div (24 * 3600)
      rest == sec % (24 * 3600)
      hh   == rest \div 3600
      mm   == (rest % 3600) \div 60
      ss   == rest % 60
      dayPart ==
        IF days = 0 THEN <<>>
        ELSE IntToStr(days) \o <<" ", "d", "a", "y">>
               \o (IF days = 1 THEN <<>> ELSE <<"s">>) \o <<",", " ">>
  IN  dayPart \o IntToStr(hh) \o <<":">> \o ZFill(IntToStr(mm), 2)
        \o <<":">> \o ZFill(IntToStr(ss), 2)

\* for h in range(hours - 1): minutes += 60
RECURSIVE FoldHours(_, _)
FoldHours(rounds, minutes) ==
  IF rounds <= 0 THEN minutes ELSE FoldHours(rounds - 1, minutes + 60)

HMSToMS(time) ==
  LET fields  == Split(time, <<":">>)
      timeArr == [k \in 1..Len(fields) |-> ParseInt(fields[k])]
  IN  IF \E k \in 1..Len(fields) : ~IsNumeral(fields[k]) THEN ValueError
      ELSE IF Len(timeArr) < 2 /\ timeArr[1] > 1 THEN IndexError
      ELSE LET folded ==
                 IF Len(timeArr) >= 2 /\ timeArr[1] # 0
                 THEN [timeArr EXCEPT ![2] = FoldHours(timeArr[1] - 1, timeArr[2])]
                 ELSE timeArr
               timeStr ==
                 [k \in 1..(Len(folded) - 1) |-> ZFill(IntToStr(folded[k + 1]), 2)]
           IN  Join(timeStr, <<":">>)

(***************************************************************************)
(* nSort: the natural sort key of the file list                            *)
(***************************************************************************)
Lower(c) == IF c \in UpperCase THEN Chr(CodePoint(c) + 32) ELSE c

\* _nsre.split(s): the runs of s, runs of digits and runs of other
\* characters in turn; the first and the last run may be empty
RECURSIVE RunsFrom(_, _, _)
RunsFrom(s, run, inDigits) ==
  IF s = <<>> THEN IF inDigits THEN <<run, <<>> >> ELSE <<run>>
  ELSE IF (Head(s) \in DigitSet) = inDigits
       THEN RunsFrom(Tail(s), Append(run, Head(s)), inDigits)
       ELSE <<run>> \o RunsFrom(Tail(s), <<Head(s)>>, ~inDigits)

\* the key of s: a run of digits (every second run) counts as its number,
\* any other run as its text in lower case
nSort(s) ==
  LET runs == RunsFrom(s, <<>>, FALSE)
  IN  [k \in 1..Len(runs) |->
         IF k % 2 = 0 THEN <<DigitsToInt(runs[k], 0)>>
         ELSE [j \in 1..Len(runs[k]) |-> CodePoint(Lower(runs[k][j]))]]

\* a < b of two lists of numbers, as Python orders lists
RECURSIVE ListLess(_, _)
ListLess(a, b) ==
  IF b = <<>> THEN FALSE
  ELSE IF a = <<>> THEN TRUE
  ELSE IF Head(a) # Head(b) THEN Head(a) < Head(b)
  ELSE ListLess(Tail(a), Tail(b))

\* a < b of two keys
RECURSIVE KeyLess(_, _)
KeyLess(a, b) ==
  IF b = <<>> THEN FALSE
  ELSE IF a = <<>> THEN TRUE
  ELSE IF Head(a) # Head(b) THEN ListLess(Head(a), Head(b))
  ELSE KeyLess(Tail(a), Tail(b))

\* k.stem of the file baseName.info.json: its name without ".json"
Stem(name) == name \o <<".", "i", "n", "f", "o">>

\* sorted(files, key=lambda k: nSort(str(k.stem)))
RECURSIVE SortedFiles(_)
SortedFiles(files) ==
  IF files = {} THEN <<>>
  ELSE LET first == CHOOSE f \in files :
                      \A g \in files :
                        ~KeyLess(nSort(Stem(g.baseName)), nSort(Stem(f.baseName)))
       IN  <<first>> \o SortedFiles(files \ {first})

(***************************************************************************)
(* Paths below the directory of the run: the sequence of their names.      *)
(***************************************************************************)
dirPath == <<>>

\* dirPath.joinpath(name); joining the empty name gives the path itself
JoinPath(path, name) == IF name = <<>> THEN path ELSE Append(path, name)

LogsName == <<"l", "o", "g", "s">>

\* str(path)
PathStr(path) == Join(path, <<"/">>)

\* the text before the last sep of s (s.rsplit(sep, 1)[0])
RECURSIVE RSplitHead(_, _)
RSplitHead(s, sep) ==
  IF \A k \in 1..Len(s) : s[k] # sep THEN s
  ELSE IF s[Len(s)] = sep THEN SubSeq(s, 1, Len(s) - 1)
  ELSE RSplitHead(SubSeq(s, 1, Len(s) - 1), sep)

(***************************************************************************)
(* The inputs of a run: the files of the directory and their metadata.     *)
(***************************************************************************)
\* a key a JSON document does not have
Missing == <<"missing">>

\* base names before their "-<id>" suffix
Prefixes ==
  { <<"A", " ", "-", " ", "!">>,
    <<"!", " ", "-", " ", "!">>,
    <<"A", "B">> }

PlainPrefix == <<"A", " ", "-", " ", "B">>

\* the id of the k-th file: 9, 10, 11, ... (their natural order is not
\* the order of their text)
FileId(k) == IntToStr(8 + k)

ChapterRecords ==
  { [start_time |-> 0, end_time |-> 65, title |-> <<"I", "n", "t", "r", "o">>],
    [start_time |-> 7265, end_time |-> 185, title |-> <<"(", "!", ")">>],
    [start_time |-> 24 * 3600 + 5, end_time |-> 24 * 3600 + 65,
     title |-> <<"T", "w", "o">>] }

\* the lists of up to MaxChapters different chapter records
ChapterLists ==
  UNION { {c \in [1..n -> ChapterRecords] :
             \A a, b \in 1..n : a # b => c[a] # c[b]} : n \in 0..MaxChapters }

\* js["chapters"]: a list of chapter records (items), a string (text), null,
\* a number or no such key
ChapterValues ==
  {[type |-> "list", items |-> c, text |-> <<>>] : c \in ChapterLists}
    \cup {[type |-> "str", items |-> <<>>, text |-> <<"a", "b">>],
          [type |-> "NoneType", items |-> <<>>, text |-> <<>>],
          [type |-> "int", items |-> <<>>, text |-> <<>>],
          [type |-> "missing", items |-> <<>>, text |-> <<>>]}

\* isinstance(v, Iterable) of a value of js["chapters"]
IsIterable(v) == v.type \in {"list", "str"}

\* the rounds of `for ... in enumerate(v)`
IterLen(v) == IF v.type = "str" THEN Len(v.text) ELSE Len(v.items)

NoChapters == [type |-> "unread", items |-> <<>>, text |-> <<>>]

JsonDocs ==
  [creator : {Missing, None, <<"C">>},
   uploader : {<<"U">>},
   title : {<<"M", "y", ":", "A", "l", "b", "u", "m">>, <<"!">>},
   chapters : ChapterValues]

\* a or b of two strings or None
Or(a, b) == IF a = None \/ a = <<>> THEN b ELSE a

(***************************************************************************)
(* The state of a run.                                                     *)
(***************************************************************************)
VARIABLES
  pargs,     \* the parsed arguments
  oldCue,    \* whether the directory holds cue sheets of an earlier run
  fileList,  \* the sorted .info.json files: [baseName, m4a (its .m4a exists)]
  pc,        \* the place of the run in the script
  fileIdx,   \* the position of `file` in fileList (0 before the loop)
  artist,
  album,
  chapters,  \* js["chapters"] of `file`
  i,         \* the chapters of `file` the chapter loop is done with
  logState,  \* of every file, the state of the log file object opened for it
  log,       \* what was written to the log of `file`
  cue,       \* the lines of the cue sheet of `file`
  dirs,      \* the directories that exist below dirPath
  made,      \* the directories os.mkdir has made
  ffmpeg,    \* the ffmpeg calls made for `file`
  stdout,    \* what print() wrote, apart from the echo of the log
  outcome,   \* of every file, how its iteration ended
  exc,       \* the exception that ended the run, if any
  value,     \* slugify alone: its argument,
  slug,      \*   its result
  reslug,    \*   and the result of slugify on that result
  sec,       \* the timestamp helpers alone: a duration,
  hms,       \*   secondsToHMS of it
  ms         \*   and HMSToMS of that

mainVars ==
  <<pargs, oldCue, fileList, pc, fileIdx, artist, album, chapters, i,
    logState, log, cue, dirs, made, ffmpeg, stdout, outcome, exc>>

slugVars == <<value, slug, reslug>>

timeVars == <<sec, hms, ms>>

pureVars == <<slugVars, timeVars>>

vars == <<mainVars, pureVars>>

Unset == <<"unset">>

\* the cue sheet an earlier run left behind
StaleCue ==
  << <<"PERFORMER", <<"o", "l", "d">> >>,
     <<"TITLE", <<"o", "l", "d">> >>,
     <<"FILE", <<"o", "l", "d">> >>,
     <<"TRACK", <<"0", "7">> >>,
     <<"TRACK TITLE", <<"o", "l", "d">> >>,
     <<"TRACK INDEX 01", <<"0", "0", ":", "0", "0", ":", "0", "0">> >> >>

\* the cue sheet of a file before the run touches it
CueBefore == IF oldCue THEN StaleCue ELSE <<>>

\* the name of the metadata file of a base name
InfoName(name) == name \o <<".", "i", "n", "f", "o", ".", "j", "s", "o", "n">>

\* f"{baseName}.m4a"
M4aName(name) == name \o <<".", "m", "4", "a">>

baseName == fileList[fileIdx].baseName

LogLine(kind, a, b, c) == [kind |-> kind, a |-> a, b |-> b, c |-> c]

Say(msg, about) == [msg |-> msg, about |-> about]

\* an uncaught exception ends the run
Raise(e) ==
  /\ pc' = "raised"
  /\ exc' = e

\* makeTargetDirs(name, path): the directories after the call
DirsAfter(existing, path, name) == existing \cup {JoinPath(path, name)}

MainInit ==
  /\ pargs \in [gen_cue : BOOLEAN, fn_tags : BOOLEAN, no_write : BOOLEAN,
                wait : {0, 10}]
  /\ oldCue \in (IF pargs.gen_cue /\ ~pargs.no_write THEN BOOLEAN ELSE {FALSE})
  /\ \E n \in 0..MaxItems :
       \E prefix \in (IF pargs.fn_tags THEN Prefixes ELSE {PlainPrefix}) :
         \E m4a \in [1..n -> BOOLEAN] :
           /\ fileList =
                SortedFiles({[baseName |-> prefix \o <<"-">> \o FileId(k),
                              m4a |-> m4a[k]] : k \in 1..n})
           /\ logState = [k \in 1..n |-> "none"]
           /\ outcome = [k \in 1..n |-> "pending"]
  /\ pc = "start"
  /\ fileIdx = 0
  /\ artist = <<>>
  /\ album = <<>>
  /\ chapters = NoChapters
  /\ i = 0
  /\ log = <<>>
  /\ cue = CueBefore
  /\ dirs \in {{dirPath}, {dirPath, JoinPath(dirPath, LogsName)}}
  /\ made = {}
  /\ ffmpeg = <<>>
  /\ stdout = <<>>
  /\ exc = None

SlugIdle ==
  /\ value = Unset
  /\ slug = Unset
  /\ reslug = Unset

TimeIdle ==
  /\ sec = 0
  /\ hms = Unset
  /\ ms = Unset

Init == MainInit /\ SlugIdle /\ TimeIdle

(***************************************************************************)
(* The steps of the script.                                                *)
(***************************************************************************)
\* line 151: `not fileList`
NoFilesSkipped == FALSE

NoFiles == fileList = <<>>

\* lines 151-153: no .info.json file at all
EmptyCheck ==
  /\ pc = "start"
  /\ IF NoFiles
     THEN /\ stdout' = Append(stdout, Say("Nothing to do.", <<>>))
          /\ pc' = "exited"
     ELSE /\ pc' = "for"
          /\ UNCHANGED stdout
  /\ UNCHANGED <<pargs, oldCue, fileList, fileIdx, artist, album, chapters, i,
                 logState, log, cue, dirs, made, ffmpeg, outcome, exc, pureVars>>

\* lines 155-163: the next file of the loop, and whether its .m4a exists.
\* The names the iteration before bound are dead here: the model clears them,
\* and log, cue and ffmpeg now speak of the files of the new `file`.
NextFile ==
  /\ pc = "for"
  /\ IF fileIdx = Len(fileList)
     THEN /\ pc' = "end"
          /\ UNCHANGED <<fileIdx, artist, album, chapters, i, log, cue, ffmpeg,
                         stdout, outcome>>
     ELSE /\ fileIdx' = fileIdx + 1
          /\ artist' = <<>>
          /\ album' = <<>>
          /\ chapters' = NoChapters
          /\ i' = 0
          /\ log' = <<>>
          /\ cue' = CueBefore
          /\ ffmpeg' = <<>>
          /\ IF fileList[fileIdx + 1].m4a
             THEN /\ pc' = "json"
                  /\ UNCHANGED <<stdout, outcome>>
             ELSE /\ stdout' = Append(stdout,
                                 Say("No matching m4a file found for",
                                     InfoName(fileList[fileIdx + 1].baseName)))
                  /\ outcome' = [outcome EXCEPT ![fileIdx + 1] = "nomatch"]
                  /\ pc' = "for"
  /\ UNCHANGED <<pargs, oldCue, fileList, logState, dirs, made, exc, pureVars>>

\* lines 168-170: artist and album of a base name
FnTags(name) ==
  LET tagName == Strip(RSplitHead(name, "-"))
      parts   == Split(tagName, <<" ", "-", " ">>)
      art     == slugify(Strip(parts[1]))
  IN  IF Len(parts) < 2 THEN IndexError
      ELSE <<art, Or(slugify(Strip(parts[2])), art)>>

\* lines 172-173: artist and album of the metadata
JsonTags(js) ==
  IF js.creator = Missing THEN KeyError
  ELSE <<slugify(Or(js.creator, js.uploader)), slugify(js.title)>>

\* lines 165-173: the metadata is read, artist and album are resolved
Resolve ==
  /\ pc = "json"
  /\ \E js \in JsonDocs :
       LET tags == IF pargs.fn_tags THEN FnTags(baseName) ELSE JsonTags(js)
       IN  IF tags \in {IndexError, KeyError}
           THEN /\ Raise(tags)
                /\ UNCHANGED <<artist, album, chapters>>
           ELSE /\ artist' = tags[1]
                /\ album' = tags[2]
                /\ chapters' = js.chapters
                /\ pc' = "log"
                /\ UNCHANGED exc
  /\ UNCHANGED <<pargs, oldCue, fileList, fileIdx, i, logState, log, cue, dirs,
                 made, ffmpeg, stdout, outcome, pureVars>>

\* lines 175-181: the logs directory, the log of the file and its first lines.
\* Binding log and printLogP anew drops the last references to a log file
\* object that was left open: whether it is finalized (and so closed) now or
\* later is up to the interpreter.
OpenLog ==
  /\ pc = "log"
  /\ dirs' = DirsAfter(dirs, dirPath, LogsName)
  /\ made' = made \cup (dirs' \ dirs)
  /\ \E finalized \in BOOLEAN :
       logState' = [k \in 1..Len(fileList) |->
                      IF k = fileIdx THEN "open"
                      ELSE IF logState[k] = "open" /\ finalized THEN "closed"
                      ELSE logState[k]]
  /\ log' = <<LogLine("====", <<>>, <<>>, <<>>),
              LogLine("Processing", album, <<>>, <<>>)>>
  /\ pc' = "guard"
  /\ UNCHANGED <<pargs, oldCue, fileList, fileIdx, artist, album, chapters, i,
                 cue, ffmpeg, stdout, outcome, exc, pureVars>>

\* lines 183-185: a file without chapters is skipped
ChaptersGuard ==
  /\ pc = "guard"
  /\ IF chapters.type = "missing"
     THEN /\ Raise(KeyError)
          /\ UNCHANGED <<log, outcome>>
     ELSE IF ~IsIterable(chapters)
     THEN /\ log' = Append(log, LogLine("Skipping", album, <<>>, <<>>))
          /\ outcome' = [outcome EXCEPT ![fileIdx] = "skipped"]
          /\ pc' = "for"
          /\ UNCHANGED exc
     ELSE /\ pc' = "prepare"
          /\ UNCHANGED <<log, outcome, exc>>
  /\ UNCHANGED <<pargs, oldCue, fileList, fileIdx, artist, album, chapters, i,
                 logState, cue, dirs, made, ffmpeg, stdout, pureVars>>

artistDir == JoinPath(dirPath, artist)

extractDir == JoinPath(artistDir, album)

\* lines 190-193: the cue sheet is opened with "w" and gets its header
CueHeader ==
  << <<"PERFORMER", artist>>,
     <<"TITLE", album>>,
     <<"FILE", M4aName(baseName)>> >>

\* lines 187-197: the cue sheet's header, or the target directories
Prepare ==
  /\ pc = "prepare"
  /\ IF pargs.no_write
     THEN UNCHANGED <<cue, dirs, made, log>>
     ELSE IF pargs.gen_cue
     THEN /\ cue' = CueHeader
          /\ UNCHANGED <<dirs, made, log>>
     ELSE /\ dirs' = DirsAfter(DirsAfter(dirs, dirPath, artist), artistDir, album)
          /\ made' = made \cup (dirs' \ dirs)
          /\ log' = Append(log, LogLine("Output directory", PathStr(extractDir),
                                        <<>>, <<>>))
          /\ UNCHANGED cue
  /\ i' = 0
  /\ pc' = "chapters"
  /\ UNCHANGED <<pargs, oldCue, fileList, fileIdx, artist, album, chapters,
                 logState, ffmpeg, stdout, outcome, exc, pureVars>>

TrackFromZero(index) == index

\* line 203
TrackOf(index) == index + 1

\* line 204
FileName(track, title) ==
  IntToStr(track) \o <<".", " ">> \o title \o <<".", "m", "4", "a">>

\* lines 217-242: the arguments of one ffmpeg call and its exit status
FfmpegCall(startTime, endTime, track, title, rc) ==
  [ss |-> startTime, to |-> endTime, input |-> M4aName(baseName),
   track |-> IntToStr(track), title |-> title, artist |-> artist,
   album_artist |-> artist, album |-> album,
   out |-> PathStr(JoinPath(extractDir, FileName(track, title))), rc |-> rc]

DryRunForgotten == FALSE

\* line 207: `if pargs.no_write: continue`
DryRun == pargs.no_write

\* lines 199-243: one round of the chapter loop
Chapter ==
  /\ pc = "chapters"
  /\ i < IterLen(chapters)
  /\ IF chapters.type = "str"
     THEN \* chapter is a character: chapter["start_time"] raises
          /\ Raise(TypeError)
          /\ UNCHANGED <<i, log, cue, ffmpeg>>
     ELSE LET chapter   == chapters.items[i + 1]
              startTime == secondsToHMS(chapter.start_time)
              endTime   == secondsToHMS(chapter.end_time)
              title     == slugify(chapter.title)
              track     == TrackOf(i)
              planned   == log \o <<LogLine("----", <<>>, <<>>, <<>>),
                                    LogLine("Processing from to", title,
                                            startTime, endTime)>>
          IN  IF DryRun
              THEN /\ log' = planned
                   /\ i' = i + 1
                   /\ UNCHANGED <<pc, exc, cue, ffmpeg>>
              ELSE IF pargs.gen_cue
              THEN /\ log' = planned
                   /\ UNCHANGED ffmpeg
                   /\ IF HMSToMS(startTime) \in {ValueError, IndexError}
                      THEN \* the third write raises, the first two are kept
                           /\ cue' = cue \o
                                << <<"TRACK", ZFill(IntToStr(track), 2)>>,
                                   <<"TRACK TITLE", title>> >>
                           /\ Raise(HMSToMS(startTime))
                           /\ UNCHANGED i
                      ELSE /\ cue' = cue \o
                                << <<"TRACK", ZFill(IntToStr(track), 2)>>,
                                   <<"TRACK TITLE", title>>,
                                   <<"TRACK INDEX 01",
                                     HMSToMS(startTime) \o <<":", "0", "0">> >> >>
                           /\ i' = i + 1
                           /\ UNCHANGED <<pc, exc>>
              ELSE /\ UNCHANGED cue
                   /\ \E rc \in {0, 1} :
                        /\ ffmpeg' = Append(ffmpeg,
                                            FfmpegCall(startTime, endTime, track,
                                                       title, rc))
                        /\ IF rc # 0
                           THEN \* subprocess.check_output raises
                                /\ log' = Append(planned,
                                            LogLine("Output file",
                                                    FileName(track, title),
                                                    <<>>, <<>>))
                                /\ Raise(CalledProcessError)
                                /\ UNCHANGED i
                           ELSE /\ log' = planned \o
                                      <<LogLine("Output file",
                                                FileName(track, title), <<>>, <<>>),
                                        LogLine("ffmpeg output", <<>>, <<>>, <<>>)>>
                                /\ i' = i + 1
                                /\ UNCHANGED <<pc, exc>>
  /\ UNCHANGED <<pargs, oldCue, fileList, fileIdx, artist, album, chapters,
                 logState, dirs, made, stdout, outcome, pureVars>>

\* line 245, after the last chapter
CloseLog ==
  /\ pc = "chapters"
  /\ i = IterLen(chapters)
  /\ logState' = [logState EXCEPT ![fileIdx] = "closed"]
  /\ outcome' = [outcome EXCEPT ![fileIdx] = "done"]
  /\ pc' = "pace"
  /\ UNCHANGED <<pargs, oldCue, fileList, fileIdx, artist, album, chapters, i,
                 log, cue, dirs, made, ffmpeg, stdout, exc, pureVars>>

\* lines 246-247: `if pargs.wait` holds of a number other than 0
Wait ==
  /\ pc = "pace"
  /\ pargs.wait # 0
  /\ stdout' = Append(stdout, Say("Waiting", IntToStr(pargs.wait)))
  /\ pc' = "for"
  /\ UNCHANGED <<pargs, oldCue, fileList, fileIdx, artist, album, chapters, i,
                 logState, log, cue, dirs, made, ffmpeg, outcome, exc, pureVars>>

\* lines 248-251 with getInput, which asks again until the answer is "" or "e"
GetInput ==
  /\ pc = "pace"
  /\ pargs.wait = 0
  /\ stdout' = Append(stdout, Say("Press Enter Key", <<>>))
  /\ \E choice \in {<<>>, <<"e">>} :
       pc' = IF choice = <<"e">> THEN "end" ELSE "for"
  /\ UNCHANGED <<pargs, oldCue, fileList, fileIdx, artist, album, chapters, i,
                 logState, log, cue, dirs, made, ffmpeg, outcome, exc, pureVars>>

Next ==
  \/ EmptyCheck
  \/ NextFile
  \/ Resolve
  \/ OpenLog
  \/ ChaptersGuard
  \/ Prepare
  \/ Chapter
  \/ CloseLog
  \/ Wait
  \/ GetInput

Spec == Init /\ [][Next]_vars

(***************************************************************************)
(* slugify alone: a string is drawn, slugify is applied to it and then to  *)
(* its own result.                                                         *)
(***************************************************************************)
MainIdle ==
  /\ pargs = [gen_cue |-> FALSE, fn_tags |-> FALSE, no_write |-> FALSE,
              wait |-> 0]
  /\ oldCue = FALSE
  /\ fileList = <<>>
  /\ pc = "idle"
  /\ fileIdx = 0
  /\ artist = <<>>
  /\ album = <<>>
  /\ chapters = NoChapters
  /\ i = 0
  /\ logState = <<>>
  /\ log = <<>>
  /\ cue = <<>>
  /\ dirs = {dirPath}
  /\ made = {}
  /\ ffmpeg = <<>>
  /\ stdout = <<>>
  /\ outcome = <<>>
  /\ exc = None

SlugAlphabet == {"a", "B", " ", "(", ")", "[", "]", ":", "-", "!"}

SlugInputs == UNION {[1..n -> SlugAlphabet] : n \in 0..MaxLen}

SlugInit ==
  /\ MainIdle
  /\ TimeIdle
  /\ value \in SlugInputs
  /\ slug = Unset
  /\ reslug = Unset

SlugOnce ==
  /\ slug = Unset
  /\ slug' = slugify(value)
  /\ UNCHANGED <<value, reslug, mainVars, timeVars>>

SlugTwice ==
  /\ slug # Unset
  /\ reslug = Unset
  /\ reslug' = slugify(slug)
  /\ UNCHANGED <<value, slug, mainVars, timeVars>>

SlugNext == SlugOnce \/ SlugTwice

SpecSlug == SlugInit /\ [][SlugNext]_vars

(***************************************************************************)
(* The timestamp helpers alone: a duration is drawn, secondsToHMS formats  *)
(* it and HMSToMS converts the result.                                     *)
(***************************************************************************)
Durations == (0..MaxSeconds) \cup {24 * 3600, 2 * 24 * 3600 + 3661}

TimeInit ==
  /\ MainIdle
  /\ SlugIdle
  /\ sec \in Durations
  /\ hms = Unset
  /\ ms = Unset

SecondsToHMS ==
  /\ hms = Unset
  /\ hms' = secondsToHMS(sec)
  /\ UNCHANGED <<sec, ms, mainVars, slugVars>>

HMSToMSStep ==
  /\ hms # Unset
  /\ ms = Unset
  /\ ms' = HMSToMS(hms)
  /\ UNCHANGED <<sec, hms, mainVars, slugVars>>

TimeNext == SecondsToHMS \/ HMSToMSStep

SpecTime == TimeInit /\ [][TimeNext]_vars

(***************************************************************************)
(* The claims.                                                             *)
(***************************************************************************)
\* the places of the script between the opening of the log of `file` and
\* the end of its iteration
InBody == pc \in {"guard", "prepare", "chapters"}

\* the chapter loop of `file` has started
InChapters ==
  \/ pc \in {"chapters", "pace"}
  \/ pc = "raised" /\ exc \in {ValueError, CalledProcessError, TypeError}

IsKind(kind, line) == line.kind = kind

PlanLines == SelectSeq(log, LAMBDA line : IsKind("Processing from to", line))

OutputFileLines == SelectSeq(log, LAMBDA line : IsKind("Output file", line))

CueLines(kind) == SelectSeq(cue, LAMBDA line : line[1] = kind)

\* the planning line of the k-th chapter of `file`
PlanOf(k) ==
  LogLine("Processing from to", slugify(chapters.items[k].title),
          secondsToHMS(chapters.items[k].start_time),
          secondsToHMS(chapters.items[k].end_time))

\* C1: the log of a file is open only while the run is inside the body of
\* that file's iteration: it is closed when the iteration ends normally, when
\* the file is skipped for having no chapters and when ffmpeg fails.
LogClosedAtItemBoundary ==
  \A k \in 1..Len(fileList) :
    logState[k] = "open" =>
      /\ k = fileIdx
      /\ InBody \/ (pc = "raised" /\ exc # CalledProcessError)

\* C2: a file whose metadata has chapters absent or not a sequence (no key,
\* null, a number, a string) is skipped with a logged message: no exception,
\* no cue sheet, no target directory, no ffmpeg call.
NoChaptersItemIsSkipped ==
  chapters.type \in {"missing", "NoneType", "int", "str"} =>
    /\ pc \in {"log", "guard", "for", "json", "end"}
    /\ pc \in {"for", "json", "end"} =>
         /\ outcome[fileIdx] = "skipped"
         /\ log # <<>> /\ log[Len(log)].kind = "Skipping"
    /\ cue = CueBefore
    /\ ffmpeg = <<>>

\* C3: a failing ffmpeg call does not end the run: the exception does not
\* leave the iteration of its file.
TranscoderFailureStaysInItem ==
  (ffmpeg # <<>> /\ ffmpeg[Len(ffmpeg)].rc # 0) => pc # "raised"

\* C4 as stated: with --no-write no directory is made, ffmpeg is never
\* called, no cue sheet is written, and the planning line of every chapter
\* is logged in chapter order.
NoWritePlansOnly ==
  pargs.no_write =>
    /\ ffmpeg = <<>>
    /\ cue = CueBefore
    /\ (chapters.type = "list" /\ InChapters) =>
         /\ PlanLines = [k \in 1..i |-> PlanOf(k)]
         /\ pc = "pace" => i = Len(chapters.items)

NoWriteMakesNoDirectory == NoWritePlansOnly /\ (pargs.no_write => made = {})

\* C4 as amended: with --no-write no directory but the logs directory is
\* made, ffmpeg is never called, no cue sheet is written, and the planning
\* line of every chapter of a list of chapter records is logged in order.
NoWriteMakesOnlyLogsDir ==
  NoWritePlansOnly /\ (pargs.no_write => made \subseteq {JoinPath(dirPath, LogsName)})

NoWriteWitness ==
  /\ pargs.no_write
  /\ pc = "pace"
  /\ Len(chapters.items) = 2
  /\ made = {JoinPath(dirPath, LogsName)}

NoFileHasM4a == \A k \in 1..Len(fileList) : ~fileList[k].m4a

NothingToDo == Say("Nothing to do.", <<>>)

NoMatch(k) ==
  Say("No matching m4a file found for", InfoName(fileList[k].baseName))

TracksAreOneToN ==
  (chapters.type = "list" /\ InChapters) =>
    LET N == Len(chapters.items)
        title(k) == slugify(chapters.items[k].title)
    IN  /\ Len(PlanLines) <= N
        /\ \A k \in 1..Len(PlanLines) : PlanLines[k] = PlanOf(k)
        /\ Len(ffmpeg) <= N
        /\ \A k \in 1..Len(ffmpeg) :
             /\ ffmpeg[k].track = IntToStr(k)
             /\ ffmpeg[k].title = title(k)
             /\ ffmpeg[k].ss = secondsToHMS(chapters.items[k].start_time)
             /\ ffmpeg[k].out =
                  PathStr(JoinPath(extractDir,
                                   IntToStr(k) \o <<".", " ">> \o title(k)
                                     \o <<".", "m", "4", "a">>))
        /\ Len(OutputFileLines) = Len(ffmpeg)
        /\ \A k \in 1..Len(OutputFileLines) :
             OutputFileLines[k].a =
               IntToStr(k) \o <<".", " ">> \o title(k) \o <<".", "m", "4", "a">>
        /\ (pargs.gen_cue /\ ~pargs.no_write) =>
             /\ Len(CueLines("TRACK")) <= N
             /\ \A k \in 1..Len(CueLines("TRACK")) :
                  /\ CueLines("TRACK")[k][2] = ZFill(IntToStr(k), 2)
                  /\ CueLines("TRACK TITLE")[k][2] = title(k)
        /\ pc = "pace" =>
             /\ Len(PlanLines) = N
             /\ (~pargs.no_write /\ ~pargs.gen_cue) => Len(ffmpeg) = N
             /\ (~pargs.no_write /\ pargs.gen_cue) => Len(CueLines("TRACK")) = N

TracksWitness ==
  /\ pc = "pace"
  /\ Len(ffmpeg) = 2
  /\ chapters.items[1].start_time > chapters.items[2].start_time
  /\ ffmpeg[2].track = <<"2">>

\* the lists of ss, one after the other
RECURSIVE Concat(_)
Concat(ss) == IF ss = <<>> THEN <<>> ELSE Head(ss) \o Concat(Tail(ss))

\* the stanza of the k-th chapter of `file`
StanzaOf(k) ==
  << <<"TRACK", ZFill(IntToStr(k), 2)>>,
     <<"TRACK TITLE", slugify(chapters.items[k].title)>>,
     <<"TRACK INDEX 01",
       HMSToMS(secondsToHMS(chapters.items[k].start_time)) \o <<":", "0", "0">> >> >>

\* C7: with --gen-cue and writes enabled, the cue sheet of a file with N
\* chapters is its header once, then whole TRACK/TITLE/INDEX stanzas of its
\* first chapters in chapter order, all N of them when the file is done.
CueSheetIsHeaderAndStanzas ==
  (pargs.gen_cue /\ ~pargs.no_write /\ chapters.type = "list" /\ InChapters) =>
    /\ \E n \in 0..Len(chapters.items) :
         cue = CueHeader \o Concat([k \in 1..n |-> StanzaOf(k)])
    /\ pc = "pace" => Len(cue) = 3 + 3 * Len(chapters.items)

\* C9: once artist and album are resolved, the album is not empty.
AlbumNeverEmpty ==
  pc \in {"log", "guard", "prepare", "chapters", "pace"} => album # <<>>

\* C10: slugify is idempotent: slugify(slugify(x)) = slugify(x) for every
\* string x over letters, space, parentheses, brackets, colon, hyphen and "!".
SlugifyIdempotent == reslug # Unset => reslug = slug

\* C8: for every duration d >= 0, HMSToMS(secondsToHMS(d)) is the string
\* MM:SS with MM = d div 60 and SS = d mod 60, both zero-padded to two digits.
CueIndexFoldsHours ==
  ms # Unset =>
    ms = ZFill(IntToStr(sec \div 60), 2) \o <<":">> \o ZFill(IntToStr(sec % 60), 2)

=============================================================================
